---- MODULE Spec2Model ----
(***************************************************************************)
(* Model of company_name_cleaner_app.py: the name normalizer               *)
(* clean_company_name (with _smart_case and the module's regular           *)
(* expressions) and the greedy grouper fuzzy_deduplicate (with rapidfuzz's *)
(* process.extractOne and fuzz.token_set_ratio, which it calls).           *)
(*                                                                         *)
(* A Python str is a sequence of one-character strings: "Acme Inc" is      *)
(* <<"A","c","m","e"," ","I","n","c">>, and "" is <<>>.                    *)
(***************************************************************************)
EXTENDS Integers, Sequences, FiniteSets, TLC

VARIABLES
    base,       \* the raw cell is built from a base name ...
    suffix,     \* ... and an optional trailing suffix word (<<>>: none)
    pc,         \* position of the run: "raw", "cleaned", "recleaned"; "loop", "returned"
    cleaned,    \* clean_company_name(raw), the "Cleaned Company Name" cell
    recleaned,  \* clean_company_name(cleaned): the normalizer run on its own output
    series,     \* fuzzy_deduplicate: the input column
    threshold,  \* fuzzy_deduplicate: the threshold argument
    i,          \* fuzzy_deduplicate: number of rows the for loop has consumed
    known,      \* fuzzy_deduplicate: list of representatives
    out,        \* fuzzy_deduplicate: list of canonical names
    match,      \* fuzzy_deduplicate: last result of process.extractOne (<<>>: None)
    result      \* fuzzy_deduplicate: the returned Series (<<>> before the return)

vars == <<base, suffix, pc, cleaned, recleaned, series, threshold, i, known, out, match, result>>

----------------------------------------------------------------------------
(* Characters.                                                             *)

\* U+0060 GRAVE ACCENT, written as a one-element pseudo character.
GRAVE == "U+0060"

\* Printable ASCII in code point order: ASCII[k] is chr(31 + k).
ASCII == <<
    " ", "!", "\"", "#", "$", "%", "&", "'", "(", ")", "*", "+", ",", "-", ".", "/", "0", "1",
    "2", "3", "4", "5", "6", "7", "8", "9", ":", ";", "<", "=", ">", "?", "@", "A", "B", "C",
    "D", "E", "F", "G", "H", "I", "J", "K", "L", "M", "N", "O", "P", "Q", "R", "S", "T", "U",
    "V", "W", "X", "Y", "Z", "[", "\\", "]", "^", "_", GRAVE, "a", "b", "c", "d", "e", "f", "g",
    "h", "i", "j", "k", "l", "m", "n", "o", "p", "q", "r", "s", "t", "u", "v", "w", "x", "y",
    "z", "{", "|", "}", "~" >>

\* U+2019 RIGHT SINGLE QUOTATION MARK, written as a one-element pseudo character.
RSQUO == "U+2019"

Whitespace == {" ", "\t", "\n"}

Chars == {ASCII[k] : k \in 1..Len(ASCII)} \cup Whitespace \cup {RSQUO}

\* ord(c) for the characters of the model (tab 9, newline 10, U+2019 8217).
Ord == [c \in Chars |->
          IF c = "\t" THEN 9
          ELSE IF c = "\n" THEN 10
          ELSE IF c = RSQUO THEN 8217
          ELSE 31 + (CHOOSE k \in 1..Len(ASCII) : ASCII[k] = c)]

IsUpperCh(c) == Ord[c] >= 65 /\ Ord[c] <= 90
IsLowerCh(c) == Ord[c] >= 97 /\ Ord[c] <= 122
IsDigitCh(c) == Ord[c] >= 48 /\ Ord[c] <= 57

\* regex \s and str.isspace
IsSpaceCh(c) == c \in Whitespace

\* regex \w
IsWordCh(c) == IsUpperCh(c) \/ IsLowerCh(c) \/ IsDigitCh(c) \/ c = "_"

LowerCh == [c \in Chars |-> IF IsUpperCh(c) THEN ASCII[Ord[c] + 32 - 31] ELSE c]
UpperCh == [c \in Chars |-> IF IsLowerCh(c) THEN ASCII[Ord[c] - 32 - 31] ELSE c]

----------------------------------------------------------------------------
(* Python str methods.                                                     *)

str_lower(s) == [k \in 1..Len(s) |-> LowerCh[s[k]]]

str_upper(s) == [k \in 1..Len(s) |-> UpperCh[s[k]]]

\* str.capitalize: first character upper-cased, the rest lower-cased
str_capitalize(s) ==
    [k \in 1..Len(s) |-> IF k = 1 THEN UpperCh[s[k]] ELSE LowerCh[s[k]]]

\* str.isupper: at least one cased character and no lower-case one
str_isupper(s) ==
    /\ \E k \in 1..Len(s) : IsUpperCh(s[k])
    /\ \A k \in 1..Len(s) : ~IsLowerCh(s[k])

RECURSIVE lstrip(_)
lstrip(s) == IF s # <<>> /\ IsSpaceCh(Head(s)) THEN lstrip(Tail(s)) ELSE s

RECURSIVE rstrip(_)
rstrip(s) ==
    IF s # <<>> /\ IsSpaceCh(s[Len(s)]) THEN rstrip(SubSeq(s, 1, Len(s) - 1)) ELSE s

str_strip(s) == rstrip(lstrip(s))

\* str.split(): the maximal runs of non-whitespace characters, in order
RECURSIVE split_from(_, _, _)
split_from(s, k, word) ==
    IF k > Len(s) THEN (IF word = <<>> THEN <<>> ELSE <<word>>)
    ELSE IF IsSpaceCh(s[k])
         THEN (IF word = <<>> THEN <<>> ELSE <<word>>) \o split_from(s, k + 1, <<>>)
         ELSE split_from(s, k + 1, Append(word, s[k]))

str_split(s) == split_from(s, 1, <<>>)

\* str.split(sep) for a one-character separator: empty parts are kept
RECURSIVE split_sep_from(_, _, _, _)
split_sep_from(s, sep, k, part) ==
    IF k > Len(s) THEN <<part>>
    ELSE IF s[k] = sep
         THEN <<part>> \o split_sep_from(s, sep, k + 1, <<>>)
         ELSE split_sep_from(s, sep, k + 1, Append(part, s[k]))

str_split_sep(s, sep) == split_sep_from(s, sep, 1, <<>>)

\* sep.join(parts)
RECURSIVE str_join(_, _)
str_join(sep, parts) ==
    IF parts = <<>> THEN <<>>
    ELSE IF Len(parts) = 1 THEN parts[1]
    ELSE parts[1] \o sep \o str_join(sep, Tail(parts))

----------------------------------------------------------------------------
(* Regular expressions.  A pattern is a sequence of elements <<kind, c>>:  *)
(*   "lit"  the character c (compared lower-cased: re.IGNORECASE)          *)
(*   "opt"  c?      "ws"  \s      "ws*"  \s*      "end"  $                  *)
(* and a compiled expression is a sequence of alternative patterns.        *)

Lit(w) == [k \in 1..Len(w) |-> <<"lit", w[k]>>]
OptDot == << <<"opt", ".">> >>
WsStar == << <<"ws*", "">> >>
WsPlus == << <<"ws", "">>, <<"ws*", "">> >>
End    == << <<"end", "">> >>

\* $ without re.MULTILINE: at the end, or just before a newline that ends the string
AtDollar(s, k) == k = Len(s) + 1 \/ (k = Len(s) /\ s[k] = "\n")

\* Backtracking match of pat[e..] at position k of s: the end of the match
\* (the index after its last character), or 0 when there is none.
RECURSIVE re_match(_, _, _, _)
re_match(pat, e, s, k) ==
    IF e > Len(pat) THEN k
    ELSE LET kind == pat[e][1]
             c    == pat[e][2]
             here == k <= Len(s)
         IN  IF kind = "lit"
             THEN IF here /\ LowerCh[s[k]] = c THEN re_match(pat, e + 1, s, k + 1) ELSE 0
             ELSE IF kind = "ws"
             THEN IF here /\ IsSpaceCh(s[k]) THEN re_match(pat, e + 1, s, k + 1) ELSE 0
             ELSE IF kind = "end"
             THEN IF AtDollar(s, k) THEN re_match(pat, e + 1, s, k) ELSE 0
             ELSE IF kind = "opt"
             THEN LET taken == IF here /\ LowerCh[s[k]] = c
                               THEN re_match(pat, e + 1, s, k + 1) ELSE 0
                  IN  IF taken # 0 THEN taken ELSE re_match(pat, e + 1, s, k)
             ELSE \* "ws*", greedy
                  LET more == IF here /\ IsSpaceCh(s[k]) THEN re_match(pat, e, s, k + 1) ELSE 0
                  IN  IF more # 0 THEN more ELSE re_match(pat, e + 1, s, k)

\* The first alternative of regex that matches at position k: the match's end, or 0.
RECURSIVE re_match_alts(_, _, _, _)
re_match_alts(regex, a, s, k) ==
    IF a > Len(regex) THEN 0
    ELSE LET m == re_match(regex[a], 1, s, k)
         IN  IF m # 0 THEN m ELSE re_match_alts(regex, a + 1, s, k)

\* re.search from position k: <<start, end>> of the leftmost match, or <<>> (None).
RECURSIVE re_search_from(_, _, _)
re_search_from(regex, s, k) ==
    IF k > Len(s) + 1 THEN <<>>
    ELSE LET m == re_match_alts(regex, 1, s, k)
         IN  IF m # 0 THEN <<k, m>> ELSE re_search_from(regex, s, k + 1)

re_search(regex, s) == re_search_from(regex, s, 1)

\* regex.sub("", s) for an expression that matches no empty string: every
\* non-overlapping match, leftmost first, is removed.
RECURSIVE re_sub_empty_from(_, _, _)
re_sub_empty_from(regex, s, k) ==
    LET m == re_search_from(regex, s, k)
    IN  IF m = <<>> THEN SubSeq(s, k, Len(s))
        ELSE SubSeq(s, k, m[1] - 1) \o re_sub_empty_from(regex, s, m[2])

re_sub_empty(regex, s) == re_sub_empty_from(regex, s, 1)

----------------------------------------------------------------------------
(* Cleaning utilities.                                                     *)

LEGAL_SUFFIX_PATTERNS == <<
        Lit(<<"i","n","c","o","r","p","o","r","a","t","e","d">>), \* r'incorporated'
        Lit(<<"i","n","c">>) \o OptDot,                \* r'inc\.?'
        Lit(<<"l","l","c">>),                          \* r'llc'
        Lit(<<"l",".","l",".","c">>) \o OptDot,        \* r'l\.l\.c\.?'
        Lit(<<"c","o","m","p","a","n","y">>),          \* r'company'
        Lit(<<"c","o">>) \o OptDot,                    \* r'co\.?'
        Lit(<<"c","o","r","p">>) \o OptDot,            \* r'corp\.?'
        Lit(<<"c","o","r","p","o","r","a","t","i","o","n">>), \* r'corporation'
        Lit(<<"l","i","m","i","t","e","d">>),          \* r'limited'
        Lit(<<"l","t","d">>) \o OptDot,                \* r'ltd\.?'
        Lit(<<"p","l","c">>),                          \* r'plc'
        Lit(<<"g","m","b","h">>),                      \* r'gmbh'
        Lit(<<"s",".","a">>) \o OptDot,                \* r's\.a\.?'
        Lit(<<"b","v">>),                              \* r'bv'
        Lit(<<"b",".","v">>) \o OptDot,                \* r'b\.v\.?'
        Lit(<<"a","g">>),                              \* r'ag'
        Lit(<<"d","d","s">>),                          \* r'dds'
        Lit(<<"d","m","d">>),                          \* r'dmd'
        Lit(<<"p",".","c">>) \o OptDot,                \* r'p\.c\.?'
        Lit(<<"p">>) \o WsStar \o Lit(<<"c">>),        \* r'p\s*c'
        Lit(<<"p","c">>),                              \* r'pc'
        Lit(<<"p",".","a">>) \o OptDot,                \* r'p\.a\.?'
        Lit(<<"p">>) \o WsStar \o Lit(<<"a">>),        \* r'p\s*a'
        Lit(<<"p","a">>),                              \* r'pa'
        Lit(<<"l","l","p">>),                          \* r'llp'
        Lit(<<"l",".","l",".","p">>) \o OptDot,        \* r'l\.l\.p\.?'
        Lit(<<"m",".","d">>) \o OptDot,                \* r'm\.d\.?'
        Lit(<<"m">>) \o WsStar \o Lit(<<"d">>),        \* r'm\s*d'
        Lit(<<"m","d">>)                               \* r'md'
>>

\* Mutant of SUFFIX_RE: the whitespace before the suffix is optional (\s* for \s+).
SUFFIX_RE_optional_space ==
    [a \in 1..Len(LEGAL_SUFFIX_PATTERNS) |->
        WsStar \o LEGAL_SUFFIX_PATTERNS[a] \o WsStar \o End]

\* r"\s+(?:" + "|".join(LEGAL_SUFFIX_PATTERNS) + r")\s*$", re.IGNORECASE
SUFFIX_RE ==
    [a \in 1..Len(LEGAL_SUFFIX_PATTERNS) |->
        WsPlus \o LEGAL_SUFFIX_PATTERNS[a] \o WsStar \o End]

\* NON_ALNUM_RE = [^\w\s&-], and NON_ALNUM_RE.sub(" ", name)
NON_ALNUM_RE(c) == ~(IsWordCh(c) \/ IsSpaceCh(c) \/ c = "&" \/ c = "-")

NON_ALNUM_RE_sub(s) == [k \in 1..Len(s) |-> IF NON_ALNUM_RE(s[k]) THEN " " ELSE s[k]]

\* MULTISPACE_RE = \s{2,}, and MULTISPACE_RE.sub(" ", name): a run of two or more
\* whitespace characters becomes one space; a single whitespace character stays.
RECURSIVE MULTISPACE_RE_sub_from(_, _)
MULTISPACE_RE_sub_from(s, k) ==
    IF k > Len(s) THEN <<>>
    ELSE IF IsSpaceCh(s[k]) /\ k < Len(s) /\ IsSpaceCh(s[k + 1])
         THEN LET after == CHOOSE j \in (k + 2)..(Len(s) + 1) :
                              /\ \A h \in k..(j - 1) : IsSpaceCh(s[h])
                              /\ (j = Len(s) + 1 \/ ~IsSpaceCh(s[j]))
              IN  <<" ">> \o MULTISPACE_RE_sub_from(s, after)
         ELSE <<s[k]>> \o MULTISPACE_RE_sub_from(s, k + 1)

MULTISPACE_RE_sub(s) == MULTISPACE_RE_sub_from(s, 1)

\* APOSTROPHE_RE = [’'], and APOSTROPHE_RE.sub("", name)
APOSTROPHE_RE(c) == c = RSQUO \/ c = "'"

APOSTROPHE_RE_sub(s) == SelectSeq(s, LAMBDA c : ~APOSTROPHE_RE(c))

STATE_CODES == {
    <<"a","l">>, <<"a","k">>, <<"a","z">>, <<"a","r">>, <<"c","a">>, <<"c","o">>, <<"c","t">>,
    <<"d","e">>, <<"f","l">>, <<"g","a">>, <<"h","i">>, <<"i","d">>, <<"i","l">>, <<"i","n">>,
    <<"i","a">>, <<"k","s">>, <<"k","y">>, <<"l","a">>, <<"m","e">>, <<"m","d">>, <<"m","a">>,
    <<"m","i">>, <<"m","n">>, <<"m","s">>, <<"m","o">>, <<"m","t">>, <<"n","e">>, <<"n","v">>,
    <<"n","h">>, <<"n","j">>, <<"n","m">>, <<"n","y">>, <<"n","c">>, <<"n","d">>, <<"o","h">>,
    <<"o","k">>, <<"o","r">>, <<"p","a">>, <<"r","i">>, <<"s","c">>, <<"s","d">>, <<"t","n">>,
    <<"t","x">>, <<"u","t">>, <<"v","t">>, <<"v","a">>, <<"w","a">>, <<"w","v">>, <<"w","i">>,
    <<"w","y">>}

STOPWORDS == {
    <<"o","f">>, <<"a","n","d">>, <<"t","h","e">>, <<"f","o","r">>, <<"i","n">>, <<"o","n">>,
    <<"a","t">>, <<"w","i","t","h">>, <<"t","o">>, <<"f","r","o","m">>, <<"b","y">>}

ACRONYM_WHITELIST == {
    <<"u","s","a">>, <<"b","s","n">>, <<"i","b","m">>, <<"u","a","m","s">>, <<"u","a","p","b">>,
    <<"m","r","i">>, <<"c","t">>, <<"l","t","b">>}

\* "-".join(part.capitalize() for part in word.split("-"))
TitleCaseHyphenated(word) ==
    LET parts == str_split_sep(word, "-")
    IN  str_join(<<"-">>, [k \in 1..Len(parts) |-> str_capitalize(parts[k])])

\* Mutant of _smart_case: a state code is title-cased like any other word.
_smart_case_state_titled(word, first) ==
    LET low == str_lower(word)
    IN  IF low \in STOPWORDS
        THEN (IF first THEN str_capitalize(word) ELSE low)
        ELSE IF str_isupper(word) /\ low \in ACRONYM_WHITELIST
        THEN word
        ELSE TitleCaseHyphenated(word)

_smart_case(word, first) ==
    LET low == str_lower(word)
    IN  IF low \in STOPWORDS
        THEN (IF first THEN str_capitalize(word) ELSE low)
        ELSE IF Len(word) = 2 /\ low \in STATE_CODES
        THEN str_upper(word)
        ELSE IF str_isupper(word) /\ low \in ACRONYM_WHITELIST
        THEN word
        ELSE TitleCaseHyphenated(word)

\* A missing cell (NaN/None), for which pd.isna is true; every str is not missing.
NaN == <<"NaN">>

pd_isna(name) == name = NaN

\* r"&\s+co\.?$" and r"\s+co\.?$", both re.IGNORECASE
AMP_CO_RE == << Lit(<<"&">>) \o WsPlus \o Lit(<<"c", "o">>) \o OptDot \o End >>

TRAILING_CO_RE == << WsPlus \o Lit(<<"c", "o">>) \o OptDot \o End >>

\* lines 76-78: apostrophes removed, other punctuation to spaces, whitespace collapsed
Scrub(name) == str_strip(MULTISPACE_RE_sub(NON_ALNUM_RE_sub(APOSTROPHE_RE_sub(name))))

\* line 80
StripSuffix(name) == str_strip(re_sub_empty(SUFFIX_RE, name))

\* lines 82-84: remove a trailing 'Co' unless preceded by '&'
StripTrailingCo(name) ==
    IF re_search(AMP_CO_RE, name) = <<>> THEN re_sub_empty(TRAILING_CO_RE, name) ELSE name

\* lines 86-90
Style(name) ==
    LET tokens == str_split(name)
        styled == [k \in 1..Len(tokens) |-> _smart_case(tokens[k], k = 1)]
    IN  IF styled # <<>> /\ styled[Len(styled)] = <<"&">>
        THEN Append(styled, <<"C", "o">>)
        ELSE styled

clean_company_name(name) ==
    IF pd_isna(name) THEN <<>>
    ELSE str_join(<<" ">>, Style(StripTrailingCo(StripSuffix(Scrub(name)))))

----------------------------------------------------------------------------
(* rapidfuzz, as called at line 105.  A score is the exact fraction        *)
(* <<num, den>> (den > 0) of rapidfuzz's float: 100 - 100 * dist / lensum   *)
(* is <<100 * (lensum - dist), lensum>>.                                   *)

ScoreGE(a, b) == a[1] * b[2] >= b[1] * a[2]
ScoreGT(a, b) == a[1] * b[2] > b[1] * a[2]
ScoreEQ(a, b) == a[1] * b[2] = b[1] * a[2]
ScoreMax(a, b) == IF ScoreGE(a, b) THEN a ELSE b

\* match[1] >= threshold, for an int threshold
ScoreAtLeast(a, t) == a[1] >= t * a[2]

\* str comparison: lexicographic by code point
RECURSIVE StrLess(_, _)
StrLess(a, b) ==
    IF b = <<>> THEN FALSE
    ELSE IF a = <<>> THEN TRUE
    ELSE IF Head(a) = Head(b) THEN StrLess(Tail(a), Tail(b))
    ELSE Ord[Head(a)] < Ord[Head(b)]

\* sorted(tokens) for a set of tokens
RECURSIVE sorted(_)
sorted(S) ==
    IF S = {} THEN <<>>
    ELSE LET least == CHOOSE x \in S : \A y \in S \ {x} : StrLess(x, y)
         IN  <<least>> \o sorted(S \ {least})

\* length of the longest common subsequence
RECURSIVE lcs_len(_, _)
lcs_len(a, b) ==
    IF a = <<>> \/ b = <<>> THEN 0
    ELSE IF Head(a) = Head(b) THEN 1 + lcs_len(Tail(a), Tail(b))
    ELSE LET x == lcs_len(Tail(a), b)
             y == lcs_len(a, Tail(b))
         IN  IF x >= y THEN x ELSE y

\* Indel distance: insertions and deletions turning a into b
indel_distance(a, b) == Len(a) + Len(b) - 2 * lcs_len(a, b)

norm_distance(dist, lensum) ==
    IF lensum > 0 THEN <<100 * (lensum - dist), lensum>> ELSE <<100, 1>>

\* fuzz.token_set_ratio(s1, s2), no processor, no score_cutoff
token_set_ratio(s1, s2) ==
    LET split1 == str_split(s1)
        split2 == str_split(s2)
        tokens_a == {split1[k] : k \in 1..Len(split1)}
        tokens_b == {split2[k] : k \in 1..Len(split2)}
        intersect == tokens_a \cap tokens_b
        diff_ab == tokens_a \ tokens_b
        diff_ba == tokens_b \ tokens_a
        diff_ab_joined == str_join(<<" ">>, sorted(diff_ab))
        diff_ba_joined == str_join(<<" ">>, sorted(diff_ba))
        ab_len == Len(diff_ab_joined)
        ba_len == Len(diff_ba_joined)
        sect_len == Len(str_join(<<" ">>, sorted(intersect)))
        sep == IF sect_len # 0 THEN 1 ELSE 0
        sect_ab_len == sect_len + sep + ab_len
        sect_ba_len == sect_len + sep + ba_len
        diff_ratio == norm_distance(indel_distance(diff_ab_joined, diff_ba_joined),
                                    sect_ab_len + sect_ba_len)
        sect_ab_ratio == norm_distance(sep + ab_len, sect_len + sect_ab_len)
        sect_ba_ratio == norm_distance(sep + ba_len, sect_len + sect_ba_len)
    IN  IF s1 = <<>> \/ s2 = <<>> THEN <<0, 1>>
        ELSE IF tokens_a = {} \/ tokens_b = {} THEN <<0, 1>>
        ELSE IF intersect # {} /\ (diff_ab = {} \/ diff_ba = {}) THEN <<100, 1>>
        ELSE IF sect_len = 0 THEN diff_ratio
        ELSE ScoreMax(ScoreMax(diff_ratio, sect_ab_ratio), sect_ba_ratio)

\* Mutant of ReplacesBest: an equal score also replaces the best so far (>= for >).
ReplacesBest_orEqual(score, best) == best = <<>> \/ ScoreGE(score, best[2])

\* process.extractOne(query, choices, scorer=fuzz.token_set_ratio): the choices are
\* scored in order and a later one replaces the best so far only with a strictly
\* higher score; the scan stops at a score of 100.  <<choice, score, index>> with
\* index counted from 1, or <<>> (None) for no choices.
ReplacesBest(score, best) == best = <<>> \/ ScoreGT(score, best[2])

RECURSIVE extractOne_from(_, _, _, _)
extractOne_from(query, choices, k, best) ==
    IF k > Len(choices) THEN best
    ELSE LET score == token_set_ratio(query, choices[k])
             now   == IF ReplacesBest(score, best) THEN <<choices[k], score, k>> ELSE best
         IN  IF ScoreEQ(score, <<100, 1>>) THEN now
             ELSE extractOne_from(query, choices, k + 1, now)

extractOne(query, choices) == extractOne_from(query, choices, 1, <<>>)

----------------------------------------------------------------------------
(* Fuzzy de-duplication helper: the body of fuzzy_deduplicate's for loop.  *)

\* Mutant of IsFalsy: the emptiness test is missing.
IsFalsy_never(value) == FALSE

\* line 102: not value
IsFalsy(value) == value = <<>>

\* Mutant of IsMatch: strict comparison (> for >=).
IsMatch_strict(m, t) == m # <<>> /\ m[2][1] > t * m[2][2]

\* line 106: match and match[1] >= threshold
IsMatch(m, t) == m # <<>> /\ ScoreAtLeast(m[2], t)

\* lines 107, 109
Canonical(value, m, t) == IF IsMatch(m, t) THEN m[1] ELSE value

\* Mutant of KnownAfter: every non-empty row is registered, matched or not.
KnownAfter_always(kn, value, m, t) == Append(kn, value)

\* line 110
KnownAfter(kn, value, m, t) == IF IsMatch(m, t) THEN kn ELSE Append(kn, value)

\* Mutant of OutAfterFalsy: the empty row is skipped without an output entry.
OutAfterFalsy_dropped(o, value) == o

\* line 103: the empty row is appended to out as it is
OutAfterFalsy(o, value) == Append(o, value)

----------------------------------------------------------------------------
(* Inputs.                                                                 *)

MaxTokens == 2
MaxRows == 3

\* Words a base name is made of, joined by single spaces.
Words == {
    <<>>, <<"A","c","m","e">>, <<"I","n","c">>, <<"&">>, <<"i","n">>, <<"c","t">>,
    <<"U","S","A">>, <<"D","a","n","'","s">>, <<".">> }

\* Spellings of the suffixes of LEGAL_SUFFIX_PATTERNS; <<>> is "no suffix".
SuffixWords == {
    <<"I","n","c">>, <<"I","n","c",".">>, <<"L","L","C">>, <<"L",".","L",".","C",".">>,
    <<"C","o">>, <<"c","o",".">>, <<"C","o","r","p",".">>, <<"S",".","A",".">>,
    <<"B",".","V",".">>, <<"P",".","C",".">>, <<"P",".","A",".">>, <<"p"," ","a">>,
    <<"P","A">>, <<"L",".","L",".","P",".">>, <<"M",".","D",".">>, <<"M","D">> }

TokenSeqs(W, n) == UNION {[1..k -> W] : k \in 0..n}

Bases == {str_join(<<" ">>, ts) : ts \in TokenSeqs(Words, MaxTokens)}

RawInputs == (Bases \X (SuffixWords \cup {<<>>})) \cup {<<NaN, <<>>>>}

\* The raw cell: the base name, then a space and the suffix word when there is one.
Raw(b, s) == IF s = <<>> THEN b ELSE b \o <<" ">> \o s

Names == {
    <<>>, <<"A">>, <<"B">>, <<"A"," ","B">>, <<"A","b">>, <<"A","c">>, <<"A","b","c">> }

\* Thresholds, in and out of the range 0..100; 92 is the default of line 99.
Thresholds == {-1, 0, 50, 80, 92, 100, 101}

----------------------------------------------------------------------------
(* The normalizer run on a cell, and run again on its own output.           *)

InitClean ==
    /\ \E r \in RawInputs : base = r[1] /\ suffix = r[2]
    /\ pc = "raw"
    /\ cleaned = <<>> /\ recleaned = <<>>
    /\ series = <<>> /\ threshold = 92 /\ i = 0
    /\ known = <<>> /\ out = <<>> /\ match = <<>> /\ result = <<>>

Clean ==
    /\ pc = "raw"
    /\ cleaned' = clean_company_name(Raw(base, suffix))
    /\ pc' = "cleaned"
    /\ UNCHANGED <<base, suffix, recleaned, series, threshold, i, known, out, match, result>>

Reclean ==
    /\ pc = "cleaned"
    /\ recleaned' = clean_company_name(cleaned)
    /\ pc' = "recleaned"
    /\ UNCHANGED <<base, suffix, cleaned, series, threshold, i, known, out, match, result>>

NextClean == Clean \/ Reclean

SpecClean == InitClean /\ [][NextClean]_vars

----------------------------------------------------------------------------
(* fuzzy_deduplicate(series, threshold).                                   *)

InitDedup ==
    /\ series \in TokenSeqs(Names, MaxRows)
    /\ threshold \in Thresholds
    /\ pc = "loop"
    /\ i = 0 /\ known = <<>> /\ out = <<>> /\ match = <<>> /\ result = <<>>
    /\ base = <<>> /\ suffix = <<>> /\ cleaned = <<>> /\ recleaned = <<>>

\* lines 101-111: one iteration of the for loop
LoopBody ==
    /\ pc = "loop"
    /\ i < Len(series)
    /\ LET value == series[i + 1]
       IN  IF IsFalsy(value)
           THEN /\ out' = OutAfterFalsy(out, value)
                /\ UNCHANGED <<known, match>>
           ELSE LET m == extractOne(value, known)
                IN  /\ match' = m
                    /\ known' = KnownAfter(known, value, m, threshold)
                    /\ out' = Append(out, Canonical(value, m, threshold))
    /\ i' = i + 1
    /\ UNCHANGED <<pc, series, threshold, result, base, suffix, cleaned, recleaned>>

\* line 112
Return ==
    /\ pc = "loop"
    /\ i = Len(series)
    /\ result' = out
    /\ pc' = "returned"
    /\ UNCHANGED <<series, threshold, i, known, out, match, base, suffix, cleaned, recleaned>>

NextDedup == LoopBody \/ Return

SpecDedup == InitDedup /\ [][NextDedup]_vars

----------------------------------------------------------------------------
(* Properties of fuzzy_deduplicate (checked under SpecDedup).              *)

\* The representatives at this point: the members of known.
KnownSet == {known[k] : k \in 1..Len(known)}

\* Rows consumed so far whose output is their own non-empty name.
SelfRows == {j \in 1..i : series[j] # <<>> /\ out[j] = series[j]}

IsPrefix(a, b) == Len(a) <= Len(b) /\ SubSeq(b, 1, Len(a)) = a

\* C2: the output has one entry per consumed row, in row order, and each entry is
\* the row's own name or the name of an earlier row that kept its own name; the
\* first non-empty row keeps its own name; entries once written never change, and
\* the returned sequence is out, as long as the input.
C2_OwnOrEarlierRepresentative ==
    /\ [](/\ Len(out) = i
          /\ \A j \in 1..Len(out) :
                \/ out[j] = series[j]
                \/ \E k \in 1..(j - 1) : out[j] = series[k] /\ out[k] = series[k]
          /\ \A j \in 1..Len(out) :
                (series[j] # <<>> /\ \A k \in 1..(j - 1) : series[k] = <<>>)
                    => out[j] = series[j]
          /\ (pc = "returned" => result = out /\ Len(result) = Len(series)))
    /\ [][IsPrefix(out, out')]_vars

\* C2 witness: a returned run in which a row was mapped to an earlier representative
\* and a representative row precedes a later, different representative.
C2_Witness ==
    /\ pc = "returned"
    /\ \E j \in 1..Len(result) : result[j] # series[j] /\ series[j] # <<>>
    /\ Len(known) >= 2

\* C4: a non-empty row whose best score against known is >= threshold (equality
\* included) outputs a best-scoring member of known and leaves known unchanged;
\* otherwise (lower best score, or known empty) it outputs its own name, which is
\* appended to known.
C4_InclusiveThreshold ==
    [][(pc = "loop" /\ i' = i + 1 /\ series[i + 1] # <<>>) =>
        LET value == series[i + 1]
            score(k) == token_set_ratio(value, known[k])
            top == {k \in 1..Len(known) :
                      \A h \in 1..Len(known) : ScoreGE(score(k), score(h))}
            hit == {k \in top : score(k)[1] >= threshold * score(k)[2]}
        IN  IF hit # {}
            THEN /\ known' = known
                 /\ \E k \in hit : out' = Append(out, known[k])
            ELSE /\ known' = Append(known, value)
                 /\ out' = Append(out, value)]_vars

\* C4 witness: the last row scored exactly the threshold against its best
\* representative and was mapped to it, a name different from its own.
C4_Witness ==
    /\ i > 0 /\ series[i] # <<>>
    /\ match # <<>>
    /\ match[2][1] = threshold * match[2][2]
    /\ threshold > 0 /\ threshold < 100
    /\ out[i] = match[1] /\ out[i] # series[i]

\* C5 (as claimed): with a threshold outside 0..100 the call is rejected before any
\* row is processed, so the loop consumes no row and nothing is returned for a
\* non-empty input.
C5_OutOfRangeThresholdRejected ==
    (threshold < 0 \/ threshold > 100) => i = 0

\* C6: an empty row outputs the empty name, and its step leaves known (and the last
\* match) unchanged; the empty name is never in known and no non-empty row is ever
\* mapped to it.
C6_EmptyPassesThrough ==
    /\ [](/\ \A j \in 1..Len(out) : (series[j] = <<>>) <=> (out[j] = <<>>)
          /\ <<>> \notin KnownSet)
    /\ [][(pc = "loop" /\ i' = i + 1 /\ series[i + 1] = <<>>) =>
            (known' = known /\ match' = match /\ out' = Append(out, <<>>))]_vars

\* C6 witness: an empty row was consumed after a representative was registered, and
\* a non-empty row followed it.
C6_Witness ==
    /\ \E j \in 2..(i - 1) : series[j] = <<>> /\ series[j - 1] # <<>> /\ series[j + 1] # <<>>
    /\ known # <<>>

\* C7: a matched row is mapped to the earliest-registered member of known among
\* those with the best score.
C7_FirstRegisteredWinsTie ==
    (i > 0 /\ series[i] # <<>> /\ match # <<>> /\ match[2][1] >= threshold * match[2][2]) =>
        LET value == series[i]
            score(k) == token_set_ratio(value, known[k])
            top == {k \in 1..Len(known) :
                      \A h \in 1..Len(known) : ScoreGE(score(k), score(h))}
            first == CHOOSE k \in top : \A h \in top : k <= h
        IN  out[i] = known[first] /\ match[3] = first /\ match[1] = known[first]

\* C7 witness: two different representatives tie for the best score below 100, the
\* score reaches the threshold, and the row is mapped to the earlier one.
C7_Witness ==
    /\ i > 0 /\ series[i] # <<>> /\ match # <<>>
    /\ match[2][1] >= threshold * match[2][2]
    /\ match[2][1] < 100 * match[2][2]
    /\ \E h \in (match[3] + 1)..Len(known) :
          /\ ScoreEQ(token_set_ratio(series[i], known[h]), match[2])
          /\ known[h] # match[1]
    /\ out[i] = known[match[3]]

\* C8: known is append-only and holds exactly the non-empty names of consumed rows
\* whose output is their own name; the name of a row mapped to another name is not
\* in known, and a row is only ever matched to a member of known.
C8_KnownIsRepresentativesOnly ==
    /\ [](/\ KnownSet = {series[j] : j \in SelfRows}
          /\ \A j \in 1..i : out[j] # series[j] => series[j] \notin KnownSet
          /\ \A j \in 1..i : out[j] # <<>> => out[j] \in KnownSet
          /\ (match # <<>> => match[1] \in KnownSet))
    /\ [][IsPrefix(known, known')]_vars

\* C8 witness: a row B was mapped to representative A, and the last row C became a
\* new representative although its score against B reaches the threshold.
C8_Witness ==
    /\ i > 1 /\ series[i] # <<>>
    /\ out[i] = series[i] /\ known[Len(known)] = series[i]
    /\ \A k \in 1..(Len(known) - 1) : known[k] # series[i]
    /\ threshold >= 0 /\ threshold <= 100
    /\ \E j \in 1..(i - 1) :
          /\ series[j] # <<>> /\ out[j] # series[j]
          /\ LET s == token_set_ratio(series[i], series[j])
             IN  s[1] >= threshold * s[2]

----------------------------------------------------------------------------
(* Properties of clean_company_name (checked under SpecClean).             *)

IsBlank(s) == \A k \in 1..Len(s) : IsSpaceCh(s[k])

\* The letters and digits of s, lower-cased.
Letters(s) == str_lower(SelectSeq(s, LAMBDA c : IsWordCh(c)))

\* C1 (as claimed): the normalizer run on its own output returns it unchanged.
C1_Idempotent == pc = "recleaned" => recleaned = cleaned

\* C3 (as claimed): a base name (a string with a letter or digit in it) with a
\* suffix word appended after a space normalizes to what the base name alone
\* normalizes to.
C3_SuffixRemoved ==
    (pc # "raw" /\ suffix # <<>> /\ Letters(base) # <<>>)
        => cleaned = clean_company_name(base)

\* C9 (as claimed): an input that is only a suffix word, possibly with whitespace
\* around it, normalizes to the empty string, like an empty or blank input.
C9_SuffixOnlyIsEmpty == (pc # "raw" /\ IsBlank(base)) => cleaned = <<>>

\* C9 (amended): an empty or whitespace-only input normalizes to the empty string,
\* but an input that is only a suffix word is not stripped: the output is not
\* empty and keeps the letters of the suffix word.
C9_SuffixOnlyIsKept ==
    (pc # "raw" /\ IsBlank(base)) =>
        IF suffix = <<>> THEN cleaned = <<>>
        ELSE cleaned # <<>> /\ Letters(cleaned) = Letters(suffix)

\* C9 witness: the input " LLC" was normalized to "Llc".
C9_Witness ==
    /\ pc = "cleaned" /\ base = <<>> /\ suffix = <<"L","L","C">>
    /\ cleaned = <<"L","l","c">>

\* C10 (as claimed): every 2-letter token of the output that is a state code,
\* whatever its case, is fully uppercase.
C10_StateCodesUppercase ==
    pc # "raw" =>
        LET toks == str_split(cleaned)
        IN  \A k \in 1..Len(toks) :
                (Len(toks[k]) = 2 /\ str_lower(toks[k]) \in STATE_CODES)
                    => toks[k] = str_upper(toks[k])

\* C10 (amended): every 2-letter token of the output that is a state code is fully
\* uppercase, except the stopword "in" (lowercase, or "In" as the first token) and
\* the "Co" appended after a trailing "&".
C10_StateCodesUppercaseButIn ==
    pc # "raw" =>
        LET toks == str_split(cleaned)
        IN  \A k \in 1..Len(toks) :
                (Len(toks[k]) = 2 /\ str_lower(toks[k]) \in STATE_CODES) =>
                    IF str_lower(toks[k]) = <<"i","n">>
                    THEN toks[k] = (IF k = 1 THEN <<"I","n">> ELSE <<"i","n">>)
                    ELSE IF k > 1 /\ k = Len(toks) /\ toks[k - 1] = <<"&">>
                            /\ toks[k] = <<"C","o">>
                    THEN TRUE
                    ELSE toks[k] = str_upper(toks[k])

\* C10 witness: "Acme ct" was normalized to "Acme CT" (a state code that is also
\* a whitelisted acronym, given in lowercase, not in first position).
C10_Witness ==
    /\ pc = "cleaned"
    /\ base = <<"A","c","m","e"," ","c","t">> /\ suffix = <<>>
    /\ cleaned = <<"A","c","m","e"," ","C","T">>

====
